---- MODULE Spec2Model ----
(***************************************************************************)
(* MetaDreams (src/src/metadreams.py, v.1.0): one run of main on a target  *)
(* path.  The file system under the target is a bounded tree of            *)
(* directories and files.  A text the program handles as data (a path, a   *)
(* metadata key or value, a prompt line, an answer) is a tuple of          *)
(* one-character strings; XML tag and attribute names are strings.         *)
(* Modelling assumptions: open(..., "w") in the target folder succeeds;    *)
(* PNG metadata values are text; JSON texts hold objects, strings,         *)
(* integers, null, true and false (no arrays, no escapes).                 *)
(***************************************************************************)
EXTENDS Integers, Sequences, FiniteSets, TLC

\* ------------------------------------------------------------------ bounds
\* Files and directories below the target folder.
MaxNodes == 3
\* Entries of a generated image literal (SpecParse).
MaxPairs == 2

\* Python's None, where a text is expected: a text is <<s>>, None is <<>>.
None == <<>>
Some(s) == <<s>>

\* ------------------------------------------------------- character texts
\* str.join of one-character strings: the Python string a tuple stands for.
RECURSIVE Cat(_)
Cat(cs) == IF cs = <<>> THEN "" ELSE Head(cs) \o Cat(Tail(cs))

\* str.replace(old, new): non-overlapping occurrences, left to right.
RECURSIVE Replace(_, _, _)
Replace(cs, old, new) ==
    IF Len(cs) < Len(old) THEN cs
    ELSE IF SubSeq(cs, 1, Len(old)) = old
         THEN new \o Replace(SubSeq(cs, Len(old) + 1, Len(cs)), old, new)
         ELSE <<Head(cs)>> \o Replace(Tail(cs), old, new)

SQ == "'"
DQ == "\""
Digits == {"0", "1", "2", "3", "4", "5", "6", "7", "8", "9"}
C_None == <<"N", "o", "n", "e">>
C_null == <<"n", "u", "l", "l">>
C_true == <<"t", "r", "u", "e">>
C_false == <<"f", "a", "l", "s", "e">>
C_True == <<"T", "r", "u", "e">>
C_False == <<"F", "a", "l", "s", "e">>

\* ------------------------------------------------------------ JSON values
JNull == [t |-> "null", s |-> <<>>, items |-> <<>>]
JStr(cs) == [t |-> "str", s |-> cs, items |-> <<>>]
JNum(cs) == [t |-> "num", s |-> cs, items |-> <<>>]
JBool(b) == [t |-> "bool", s |-> IF b THEN C_True ELSE C_False, items |-> <<>>]
JObj(items) == [t |-> "obj", s |-> <<>>, items |-> items]

\* dict[key] = value: a repeated key keeps its place and takes the new value.
DictPut(items, k, v) ==
    IF \E i \in 1..Len(items) : items[i][1] = k
    THEN [i \in 1..Len(items) |-> IF items[i][1] = k THEN <<k, v>> ELSE items[i]]
    ELSE Append(items, <<k, v>>)

\* The decoder.  A result is [ok, val, next]: next is the first position
\* after the value; ok = FALSE is JSONDecodeError.
JFail == [ok |-> FALSE, val |-> JNull, next |-> 0]
JOk(v, n) == [ok |-> TRUE, val |-> v, next |-> n]

RECURSIVE SkipWs(_, _)
SkipWs(cs, i) == IF i <= Len(cs) /\ cs[i] = " " THEN SkipWs(cs, i + 1) ELSE i

StartsAt(cs, i, word) ==
    /\ i + Len(word) - 1 <= Len(cs)
    /\ SubSeq(cs, i, i + Len(word) - 1) = word

\* The position of the double quote that closes a string opened before i.
RECURSIVE CloseQuote(_, _)
CloseQuote(cs, i) ==
    IF i > Len(cs) THEN 0
    ELSE IF cs[i] = DQ THEN i ELSE CloseQuote(cs, i + 1)

RECURSIVE DigitsEnd(_, _)
DigitsEnd(cs, i) ==
    IF i <= Len(cs) /\ cs[i] \in Digits THEN DigitsEnd(cs, i + 1) ELSE i

ScanString(cs, i) ==
    LET j == CloseQuote(cs, i + 1)
    IN  IF j = 0 THEN JFail ELSE JOk(JStr(SubSeq(cs, i + 1, j - 1)), j + 1)

RECURSIVE ScanValue(_, _)
RECURSIVE ScanPairs(_, _, _)
\* After "{" or ",": a "key": value pair, then "," or "}".
ScanPairs(cs, i, items) ==
    LET k == SkipWs(cs, i)
    IN  IF k > Len(cs) \/ cs[k] # DQ THEN JFail
        ELSE LET key == ScanString(cs, k)
             IN  IF ~key.ok THEN JFail
                 ELSE LET c == SkipWs(cs, key.next)
                      IN  IF c > Len(cs) \/ cs[c] # ":" THEN JFail
                          ELSE LET v == ScanValue(cs, SkipWs(cs, c + 1))
                               IN  IF ~v.ok THEN JFail
                                   ELSE LET e  == SkipWs(cs, v.next)
                                            it == DictPut(items, key.val.s, v.val)
                                        IN  IF e > Len(cs) THEN JFail
                                            ELSE IF cs[e] = "}" THEN JOk(JObj(it), e + 1)
                                            ELSE IF cs[e] = "," THEN ScanPairs(cs, e + 1, it)
                                            ELSE JFail

ScanValue(cs, i) ==
    IF i > Len(cs) THEN JFail
    ELSE IF cs[i] = DQ THEN ScanString(cs, i)
    ELSE IF cs[i] = "{"
         THEN LET k == SkipWs(cs, i + 1)
              IN  IF k <= Len(cs) /\ cs[k] = "}" THEN JOk(JObj(<<>>), k + 1)
                  ELSE ScanPairs(cs, i + 1, <<>>)
    ELSE IF StartsAt(cs, i, C_null) THEN JOk(JNull, i + 4)
    ELSE IF StartsAt(cs, i, C_true) THEN JOk(JBool(TRUE), i + 4)
    ELSE IF StartsAt(cs, i, C_false) THEN JOk(JBool(FALSE), i + 5)
    ELSE IF cs[i] = "0" THEN JOk(JNum(<<"0">>), i + 1)
    ELSE IF cs[i] \in Digits
         THEN JOk(JNum(SubSeq(cs, i, DigitsEnd(cs, i) - 1)), DigitsEnd(cs, i))
    ELSE JFail

\* json.loads: one value, white space around it, nothing after it.
json_loads(cs) ==
    LET r == ScanValue(cs, SkipWs(cs, 1))
    IN  IF r.ok /\ SkipWs(cs, r.next) = Len(cs) + 1 THEN r ELSE JFail

\* str(value) of a decoded value; a dict prints as a Python literal.
RECURSIVE PyStr(_)
RECURSIVE PyItems(_, _)
Has(cs, c) == \E i \in 1..Len(cs) : cs[i] = c
\* repr: a string is quoted with ', or with " when it holds ' and no ".
PyRepr(v) ==
    IF v.t # "str" THEN PyStr(v)
    ELSE IF Has(v.s, SQ) /\ ~Has(v.s, DQ) THEN <<DQ>> \o v.s \o <<DQ>>
    ELSE <<SQ>> \o v.s \o <<SQ>>
PyItems(items, i) ==
    IF i > Len(items) THEN <<>>
    ELSE (IF i > 1 THEN <<",", " ">> ELSE <<>>)
         \o <<SQ>> \o items[i][1] \o <<SQ, ":", " ">> \o PyRepr(items[i][2])
         \o PyItems(items, i + 1)
PyStr(v) ==
    CASE v.t = "null" -> C_None
      [] v.t = "obj"  -> <<"{">> \o PyItems(v.items, 1) \o <<"}">>
      [] OTHER        -> v.s

\* ------------------------------------------------------------------ texts
UpperCs == <<"A", "B", "C", "D", "E", "F", "G", "H", "I", "J", "K", "L", "M",
             "N", "O", "P", "Q", "R", "S", "T", "U", "V", "W", "X", "Y", "Z">>
LowerCs == <<"a", "b", "c", "d", "e", "f", "g", "h", "i", "j", "k", "l", "m",
             "n", "o", "p", "q", "r", "s", "t", "u", "v", "w", "x", "y", "z">>
\* str.lower
Lower(cs) ==
    [i \in 1..Len(cs) |->
        IF \E j \in 1..26 : UpperCs[j] = cs[i]
        THEN LowerCs[CHOOSE j \in 1..26 : UpperCs[j] = cs[i]]
        ELSE cs[i]]

\* str.endswith
EndsWith(cs, suffix) ==
    /\ Len(suffix) <= Len(cs)
    /\ SubSeq(cs, Len(cs) - Len(suffix) + 1, Len(cs)) = suffix

\* str.rfind("/"): the last slash's position, 0 when there is none.
RECURSIVE RFindSlash(_, _)
RFindSlash(cs, i) ==
    IF i = 0 THEN 0 ELSE IF cs[i] = "/" THEN i ELSE RFindSlash(cs, i - 1)

RECURSIVE RStripSlash(_)
RStripSlash(cs) ==
    IF cs # <<>> /\ cs[Len(cs)] = "/" THEN RStripSlash(SubSeq(cs, 1, Len(cs) - 1)) ELSE cs

\* posixpath.join, dirname, basename
Join(a, b) ==
    IF b # <<>> /\ b[1] = "/" THEN b
    ELSE IF a = <<>> \/ a[Len(a)] = "/" THEN a \o b
    ELSE a \o <<"/">> \o b
Dirname(p) ==
    LET head == SubSeq(p, 1, RFindSlash(p, Len(p)))
    IN  IF RStripSlash(head) # <<>> THEN RStripSlash(head) ELSE head
Basename(p) == SubSeq(p, RFindSlash(p, Len(p)) + 1, Len(p))

C_png == <<".", "p", "n", "g">>
C_txt == <<".", "t", "x", "t">>
C_Dream == <<"D", "r", "e", "a", "m">>
C_sd_metadata == <<"s", "d", "-", "m", "e", "t", "a", "d", "a", "t", "a">>
C_image == <<"i", "m", "a", "g", "e">>
C_model == <<"m", "o", "d", "e", "l">>
C_key == <<"k", "e", "y">>
C_path == <<"p", "a", "t", "h">>
C_size == <<"s", "i", "z", "e">>
C_filename == <<"f", "i", "l", "e", "n", "a", "m", "e">>
C_ckpt == <<"c", "k", "p", "t">>
C_dash_o == <<" ", "-", "o", " ">>

\* The program's constants.
KEY_FOLDER == <<"f", "o", "l", "d", "e", "r">>
KEY_FOLDER_NAME == <<"n", "a", "m", "e">>
KEY_FOLDER_PATH == C_path
KEY_IMAGE == C_image
KEY_IMAGE_PATH == C_path
KEY_CKPT == C_ckpt
KEY_DREAM == <<"d", "r", "e", "a", "m">>
FILE_METADATA == <<"m", "e", "t", "a", "d", "a", "t", "a", ".", "x", "m", "l">>
FILE_PROMPTS == <<"p", "r", "o", "m", "p", "t", "s", ".", "s", "d", "p">>

\* -------------------------------------------------------------- the tree
\* A tree is a sequence of nodes [parent, kind]: parent 0 is the target
\* folder, a parent comes before its children, and os.listdir of a folder
\* lists its children in node order.
PngKinds == {"corrupt", "plain", "dream", "emptydream", "sd", "sdbad", "imgbad"}
FileKinds == PngKinds \cup {"txt"}
Kinds == FileKinds \cup {"dir"}

NodeDigit == <<"1", "2", "3", "4", "5", "6">>
DreamTexts == <<<<"c", "a", "t">>, <<"d", "o", "g">>, <<"f", "o", "x">>,
                <<"o", "w", "l">>, <<"s", "e", "a">>, <<"e", "l", "k">>>>

\* The name of node n: d<n>, f<n>.txt or f<n>.png.
NodeName(t, n) ==
    IF t[n].kind = "dir" THEN <<"d", NodeDigit[n]>>
    ELSE IF t[n].kind = "txt" THEN <<"f", NodeDigit[n]>> \o C_txt
    ELSE <<"f", NodeDigit[n]>> \o C_png

RECURSIVE ChildrenFrom(_, _, _)
ChildrenFrom(t, d, i) ==
    IF i > Len(t) THEN <<>>
    ELSE (IF t[i].parent = d THEN <<i>> ELSE <<>>) \o ChildrenFrom(t, d, i + 1)
\* os.listdir(folder), as nodes; os.path.isdir and isfile of an entry.
Listdir(t, d) == ChildrenFrom(t, d, 1)
IsDir(t, n) == t[n].kind = "dir"
IsFile(t, n) == t[n].kind \in FileKinds

\* ----------------------------------------------------- the PNG files' data
Q(cs) == <<DQ>> \o cs \o <<DQ>>
\* {'key': None} and {'key': True}
ImgGood == <<"{", SQ>> \o C_key \o <<SQ, ":", " ">> \o C_None \o <<"}">>
ImgBad == <<"{", SQ>> \o C_key \o <<SQ, ":", " ">> \o C_True \o <<"}">>
\* {"model": "sd", "image": "<literal>"}
SdText(img) ==
    <<"{">> \o Q(C_model) \o <<":", " ">> \o Q(<<"s", "d">>) \o <<",", " ">>
    \o Q(C_image) \o <<":", " ">> \o Q(img) \o <<"}">>
\* A truncated block: {"model": "sd
SdBroken == <<"{">> \o Q(C_model) \o <<":", " ", DQ, "s", "d">>

\* im.info of the file at node n: (key, value) in the file's order.
PngInfo(t, n) ==
    CASE t[n].kind = "dream"      -> << <<C_Dream, DreamTexts[n]>> >>
      [] t[n].kind = "emptydream" -> << <<C_Dream, <<>>>> >>
      [] t[n].kind = "sd"         -> << <<C_sd_metadata, SdText(ImgGood)>> >>
      [] t[n].kind = "imgbad"     -> << <<C_sd_metadata, SdText(ImgBad)>> >>
      [] t[n].kind = "sdbad"      -> << <<C_sd_metadata, SdBroken>> >>
      [] OTHER                    -> <<>>
\* str(im.size)
PngSize == <<"(", "5", "1", "2", ",", " ", "5", "1", "2", ")">>

\* Image.open raises OSError on the corrupt file: the (None, None) sentinel.
process_png_file(t, n) ==
    IF t[n].kind = "corrupt"
    THEN [metadata |-> None, size |-> None]
    ELSE [metadata |-> Some(PngInfo(t, n)), size |-> Some(PngSize)]

\* ------------------------------------------------------------ XML elements
\* An element: its tag, its attributes in the order set, its text (None or
\* Some(text)) and its children.
Element(tag) == [tag |-> tag, attrs |-> <<>>, text |-> None, children |-> <<>>]

add_single_element(element, key, value) ==
    [element EXCEPT !.children =
        Append(@, [Element(Cat(Lower(key))) EXCEPT !.text = Some(value)])]

\* The new sub-element; the caller appends it once it is filled.
add_multi_element(key) == Element(Cat(Lower(key)))

add_attr_element(element, key, value) ==
    [element EXCEPT !.attrs = Append(@, <<Cat(Lower(key)), value>>)]

\* An operation that may raise: the exception's name ("" when it returned)
\* and the element built.
Raised(name, e) == [raised |-> name, elem |-> e]
Returned(e) == [raised |-> "", elem |-> e]

\* ------------------------------------------------------ the image element
\* parse_image_info: [raised, val]; val = JNull stands for None.
\* parse_image_info without the None -> null replacement.
parse_image_info_KeepsNone(value) ==
    IF value.t = "null" THEN [raised |-> "", val |-> JNull]
    ELSE IF json_loads(Replace(PyStr(value), <<SQ>>, <<DQ>>)).ok
    THEN [raised |-> "", val |-> json_loads(Replace(PyStr(value), <<SQ>>, <<DQ>>)).val]
    ELSE [raised |-> "JSONDecodeError", val |-> JNull]
Decoded(r) ==
    IF r.ok THEN [raised |-> "", val |-> r.val]
    ELSE [raised |-> "JSONDecodeError", val |-> JNull]
parse_image_info(value) ==
    IF value.t = "null" THEN [raised |-> "", val |-> JNull]
    ELSE Decoded(json_loads(Replace(Replace(PyStr(value), <<SQ>>, <<DQ>>),
                                    C_None, C_null)))

RECURSIVE WriteItems(_, _, _)
WriteItems(element, items, i) ==
    IF i > Len(items) THEN element
    ELSE WriteItems(add_single_element(element, items[i][1], PyStr(items[i][2])),
                    items, i + 1)

\* write_image_info; a decoded value that is no dict has no items().
write_image_info(element, dict_image) ==
    IF dict_image.t = "null" THEN Returned(element)
    ELSE IF dict_image.t # "obj" THEN Raised("AttributeError", element)
    ELSE Returned(WriteItems(element, dict_image.items, 1))

\* The loop over sd_metadata.items(): SdLoop, with the image entry's two
\* steps (parse_image_info, then write_image_info).
RECURSIVE SdLoop(_, _, _)
SdWritten(w, items, i) ==
    IF w.raised # "" THEN w ELSE SdLoop(w.elem, items, i + 1)
SdImage(sd_element, sd_image, items, i) ==
    IF sd_image.raised # "" THEN Raised(sd_image.raised, sd_element)
    ELSE SdWritten(write_image_info(sd_element, sd_image.val), items, i)
SdLoop(sd_element, items, i) ==
    IF i > Len(items) THEN Returned(sd_element)
    ELSE IF items[i][1] = KEY_IMAGE
         THEN SdImage(sd_element, parse_image_info(items[i][2]), items, i)
         ELSE SdLoop(add_single_element(sd_element, items[i][1], PyStr(items[i][2])),
                     items, i + 1)

\* "if ckpt": None and the empty string are false.
Truthy(ckpt) == ckpt # None /\ ckpt[1] # <<>>

\* A variant that never adds the ckpt tag.
SdElement_NoCkpt(key, ckpt) == add_multi_element(key)
\* The new sd-metadata element, with the ckpt tag if there is one.
SdElement(key, ckpt) ==
    IF Truthy(ckpt)
    THEN add_single_element(add_multi_element(key), KEY_CKPT, ckpt[1])
    ELSE add_multi_element(key)

\* The loop over metadata.items(): MetadataLoop, with the sd-metadata
\* entry's steps (json.loads, then the loop over its items).
RECURSIVE MetadataLoop(_, _, _, _)
SdDone(element, r, metadata, i, ckpt) ==
    IF r.raised # "" THEN Raised(r.raised, element)
    ELSE MetadataLoop([element EXCEPT !.children = Append(@, r.elem)],
                      metadata, i + 1, ckpt)
SdMetadata(element, sd_metadata, metadata, i, ckpt) ==
    IF ~sd_metadata.ok THEN Raised("JSONDecodeError", element)
    ELSE IF sd_metadata.val.t # "obj" THEN Raised("AttributeError", element)
    ELSE SdDone(element,
                SdLoop(SdElement(metadata[i][1], ckpt), sd_metadata.val.items, 1),
                metadata, i, ckpt)
MetadataLoop(element, metadata, i, ckpt) ==
    IF i > Len(metadata) THEN Returned(element)
    ELSE IF metadata[i][1] = C_sd_metadata
         THEN SdMetadata(element, json_loads(metadata[i][2]), metadata, i, ckpt)
         ELSE MetadataLoop(add_single_element(element, metadata[i][1], metadata[i][2]),
                           metadata, i + 1, ckpt)

create_image_element(file_path, metadata, size, ckpt) ==
    MetadataLoop(
        add_single_element(
            add_single_element(
                add_attr_element(Element("image"), C_filename, Basename(file_path)),
                C_path, file_path),
            C_size, size),
        metadata, 1, ckpt)

\* ----------------------------------------------------- the folder element
is_folder_empty(t, d) == Len(Listdir(t, d)) = 0

\* A call of create_folder_element: the tree, the folder's node and path,
\* and the two options.
Call(t, d, folder, recursive, ckpt) ==
    [t |-> t, d |-> d, folder |-> folder, recursive |-> recursive, ckpt |-> ckpt]

\* create_folder_element(c): the folder element, which the caller appends
\* to xml_element.  FolderLoop is its loop over os.listdir(folder), from
\* entry i on; FolderEntry is the loop's body for entry n at path filename.
RECURSIVE create_folder_element(_)
RECURSIVE FolderLoop(_, _, _)
\* A variant that puts a sub-folder's content beside its element instead
\* of inside it.
Appended_Flat(folder_element, r, c, i) ==
    IF r.raised # "" THEN Raised(r.raised, folder_element)
    ELSE IF r.elem.tag = Cat(KEY_FOLDER)
    THEN FolderLoop([folder_element EXCEPT
                        !.children = Append(@, [r.elem EXCEPT !.children = <<>>])
                                     \o r.elem.children], c, i + 1)
    ELSE FolderLoop([folder_element EXCEPT !.children = Append(@, r.elem)], c, i + 1)
Appended(folder_element, r, c, i) ==
    IF r.raised # "" THEN Raised(r.raised, folder_element)
    ELSE FolderLoop([folder_element EXCEPT !.children = Append(@, r.elem)], c, i + 1)
\* A variant that hands an unreadable file's sentinel on to
\* create_image_element, whose metadata.items() then raises.
FolderPng_NoSentinelCheck(folder_element, p, filename, c, i) ==
    IF p.metadata = None \/ p.size = None
    THEN Raised("AttributeError", folder_element)
    ELSE Appended(folder_element,
                  create_image_element(filename, p.metadata[1], p.size[1], c.ckpt),
                  c, i)
FolderPng(folder_element, p, filename, c, i) ==
    IF p.metadata = None \/ p.size = None
    THEN FolderLoop(folder_element, c, i + 1)
    ELSE Appended(folder_element,
                  create_image_element(filename, p.metadata[1], p.size[1], c.ckpt),
                  c, i)
\* Variants of the loop's body: one that never enters a sub-folder, one
\* that enters every sub-folder whatever the recursive option, one that
\* enters only the sub-folders that hold something.
FolderEntry_NeverDescends(folder_element, n, filename, c, i) ==
    IF IsFile(c.t, n) /\ EndsWith(filename, C_png)
    THEN FolderPng(folder_element, process_png_file(c.t, n), filename, c, i)
    ELSE FolderLoop(folder_element, c, i + 1)
FolderEntry_AlwaysDescends(folder_element, n, filename, c, i) ==
    IF IsDir(c.t, n)
    THEN Appended(folder_element,
                  create_folder_element(Call(c.t, n, filename, c.recursive, c.ckpt)),
                  c, i)
    ELSE IF IsFile(c.t, n) /\ EndsWith(filename, C_png)
    THEN FolderPng(folder_element, process_png_file(c.t, n), filename, c, i)
    ELSE FolderLoop(folder_element, c, i + 1)
FolderEntry_SkipsEmptyFolders(folder_element, n, filename, c, i) ==
    IF IsDir(c.t, n) /\ c.recursive /\ ~is_folder_empty(c.t, n)
    THEN Appended(folder_element,
                  create_folder_element(Call(c.t, n, filename, c.recursive, c.ckpt)),
                  c, i)
    ELSE IF IsFile(c.t, n) /\ EndsWith(filename, C_png)
    THEN FolderPng(folder_element, process_png_file(c.t, n), filename, c, i)
    ELSE FolderLoop(folder_element, c, i + 1)
FolderEntry(folder_element, n, filename, c, i) ==
    IF IsDir(c.t, n) /\ c.recursive
    THEN Appended(folder_element,
                  create_folder_element(Call(c.t, n, filename, c.recursive, c.ckpt)),
                  c, i)
    ELSE IF IsFile(c.t, n) /\ EndsWith(filename, C_png)
    THEN FolderPng(folder_element, process_png_file(c.t, n), filename, c, i)
    ELSE FolderLoop(folder_element, c, i + 1)
FolderLoop(folder_element, c, i) ==
    IF i > Len(Listdir(c.t, c.d)) THEN Returned(folder_element)
    ELSE IF is_folder_empty(c.t, c.d) THEN FolderLoop(folder_element, c, i + 1)
    ELSE FolderEntry(folder_element, Listdir(c.t, c.d)[i],
                     Join(c.folder, NodeName(c.t, Listdir(c.t, c.d)[i])), c, i)

create_folder_element(c) ==
    FolderLoop(
        add_attr_element(
            add_attr_element(add_multi_element(KEY_FOLDER),
                             KEY_FOLDER_NAME, Basename(c.folder)),
            KEY_FOLDER_PATH, c.folder),
        c, 1)

\* ------------------------------------------------------------ the document
\* What a parser reads back from minidom's toprettyxml of an element: an
\* element with children has indentation as its text, an element whose
\* text is empty is written <tag/> and has no text.
C_indent == <<"\n", " ">>
RECURSIVE ToPrettyXml(_)
ToPrettyXml(e) ==
    [e EXCEPT !.text = IF e.children # <<>> THEN Some(C_indent)
                       ELSE IF e.text = Some(<<>>) THEN None ELSE e.text,
              !.children = [i \in 1..Len(e.children) |-> ToPrettyXml(e.children[i])]]

C_version == <<"M", "e", "t", "a", "D", "r", "e", "a", "m", "s", " ",
               "v", ".", "1", ".", "0">>

\* create_xml_document: the xml string, as the document it holds.
Root == add_attr_element(Element("metadata"),
                         <<"s", "o", "f", "t", "w", "a", "r", "e">>, C_version)
Document(f) ==
    IF f.raised # "" THEN Raised(f.raised, Root)
    ELSE Returned(ToPrettyXml([Root EXCEPT !.children = Append(@, f.elem)]))
create_xml_document(t, folder, recursive, ckpt) ==
    Document(create_folder_element(Call(t, 0, folder, recursive, ckpt)))

\* -------------------------------------------------------------- the files
\* A file of the target folder: whether it exists, whether it is
\* well-formed XML, and the document it holds.
NoFile == [exists |-> FALSE, wellformed |-> FALSE, root |-> Element("")]
XmlFile(root) == [exists |-> TRUE, wellformed |-> TRUE, root |-> root]
BrokenFile == [exists |-> TRUE, wellformed |-> FALSE, root |-> Element("")]

\* parse_metadata_xml_file: eltree.parse of the file.
parse_metadata_xml_file(f) ==
    IF ~f.exists THEN Raised("FileNotFoundError", f.root)
    ELSE IF ~f.wellformed THEN Raised("ParseError", f.root)
    ELSE Returned(f.root)

\* Element.iter(tag): the element and its descendants, in document order.
RECURSIVE Iter(_, _)
RECURSIVE IterChildren(_, _, _)
IterChildren(children, tag, i) ==
    IF i > Len(children) THEN <<>>
    ELSE Iter(children[i], tag) \o IterChildren(children, tag, i + 1)
Iter(e, tag) ==
    (IF e.tag = tag THEN <<e>> ELSE <<>>) \o IterChildren(e.children, tag, 1)

\* Element.find(tag): the first child with the tag, 0 for None.
Find(e, tag) ==
    IF \E i \in 1..Len(e.children) : e.children[i].tag = tag
    THEN CHOOSE i \in 1..Len(e.children) :
            /\ e.children[i].tag = tag
            /\ \A j \in 1..(i - 1) : e.children[j].tag # tag
    ELSE 0

\* ------------------------------------------------------------ the prompts
\* get_all_prompts: [raised, dreams]; a prompt is an element's text, which
\* is None for an element without text.
RECURSIVE PromptLoop(_, _, _, _)
\* A variant that names the folder of the document's first image on every
\* line.
PromptLoop_FirstImageFolder(images, i, output, dreams) ==
    IF i > Len(images) THEN [raised |-> "", dreams |-> dreams]
    ELSE LET image == images[i]
             dream == Find(image, Cat(KEY_DREAM))
             path  == Find(images[1], Cat(KEY_IMAGE_PATH))
         IN  IF dream = 0 THEN PromptLoop(images, i + 1, output, dreams)
             ELSE IF ~output
             THEN PromptLoop(images, i + 1, output,
                             Append(dreams, image.children[dream].text))
             ELSE IF path = 0 THEN [raised |-> "AttributeError", dreams |-> dreams]
             ELSE IF images[1].children[path].text = None
                     \/ image.children[dream].text = None
             THEN [raised |-> "TypeError", dreams |-> dreams]
             ELSE PromptLoop(images, i + 1, output,
                     Append(dreams,
                            Some(image.children[dream].text[1] \o C_dash_o
                                 \o Dirname(images[1].children[path].text[1]))))
PromptLoop(images, i, output, dreams) ==
    IF i > Len(images) THEN [raised |-> "", dreams |-> dreams]
    ELSE LET image == images[i]
             dream == Find(image, Cat(KEY_DREAM))
             path  == Find(image, Cat(KEY_IMAGE_PATH))
         IN  IF dream = 0 THEN PromptLoop(images, i + 1, output, dreams)
             ELSE IF ~output
             THEN PromptLoop(images, i + 1, output,
                             Append(dreams, image.children[dream].text))
             ELSE IF path = 0 THEN [raised |-> "AttributeError", dreams |-> dreams]
             ELSE IF image.children[path].text = None
                     \/ image.children[dream].text = None
             THEN [raised |-> "TypeError", dreams |-> dreams]
             ELSE PromptLoop(images, i + 1, output,
                     Append(dreams,
                            Some(image.children[dream].text[1] \o C_dash_o
                                 \o Dirname(image.children[path].text[1]))))

get_all_prompts(xml_document, output) ==
    PromptLoop(Iter(xml_document, Cat(KEY_IMAGE)), 1, output, <<>>)

\* write_dreams: the file is opened (and emptied), then one write per
\* dream; [raised, content] with the content written up to the exception.
RECURSIVE write_dreams(_, _, _)
write_dreams(dreams, i, content) ==
    IF i > Len(dreams) THEN [raised |-> "", content |-> content]
    ELSE IF dreams[i] = None THEN [raised |-> "TypeError", content |-> content]
    ELSE write_dreams(dreams, i + 1, content \o dreams[i][1] \o <<"\n">>)

\* create_dreams_file: [raised, opened, content]; opened tells whether the
\* prompts file was opened for writing.
NotOpened(raised) == [raised |-> raised, opened |-> FALSE, content |-> <<>>]
Written(w) == [raised |-> w.raised, opened |-> TRUE, content |-> w.content]
Prompted(got) ==
    IF got.raised # "" THEN NotOpened(got.raised)
    ELSE Written(write_dreams(got.dreams, 1, <<>>))
Parsed(doc, output_argument) ==
    IF doc.raised # "" THEN NotOpened(doc.raised)
    ELSE Prompted(get_all_prompts(doc.elem, output_argument))
create_dreams_file(xml_file, output_argument) ==
    Parsed(parse_metadata_xml_file(xml_file), output_argument)

\* Variants of check_metadata_file_overwrite: one that authorizes whatever
\* the answer, one that authorizes only the overwrite of a file that is there.
check_metadata_file_overwrite_IgnoresAnswer(f, response) == TRUE
check_metadata_file_overwrite_NeedsFile(f, response) ==
    IF f.exists
    THEN Lower(response) = <<"y", "e", "s">> \/ Lower(response) = <<"y">>
    ELSE FALSE
\* check_metadata_file_overwrite, given the answer typed at the prompt.
check_metadata_file_overwrite(f, response) ==
    IF f.exists
    THEN Lower(response) = <<"y", "e", "s">> \/ Lower(response) = <<"y">>
    ELSE TRUE

\* ---------------------------------------------------------------- state
VARIABLES
    tree,          \* the files and folders below the target
    target,        \* "dir": the target is a folder; "missing": it does not exist
    args,          \* the parsed command line
    metadata_xml,  \* <target>/metadata.xml
    prompts_sdp,   \* <target>/prompts.sdp
    writes,        \* the paths opened for writing, in order
    answer,        \* the answer typed at the overwrite prompt, None if not asked
    pc,            \* main's position
    exc,           \* the exception that ended the run, "" if none
    literal,       \* SpecParse: the dict whose Python literal is decoded
    sd_value,      \* SpecParse: the image entry handed to parse_image_info
    sd_image       \* SpecParse: what parse_image_info returned

vars == <<tree, target, args, metadata_xml, prompts_sdp, writes, answer, pc, exc,
          literal, sd_value, sd_image>>
parse_vars == <<literal, sd_value, sd_image>>
main_vars == <<tree, target, args, metadata_xml, prompts_sdp, writes, answer, pc, exc>>

\* The trees of n nodes.
Parents(n) == {p \in [1..n -> 0..(n - 1)] : \A i \in 1..n : p[i] < i}
TreesOf(n) ==
    {t \in {[i \in 1..n |-> [parent |-> p[i], kind |-> k[i]]] :
                p \in Parents(n), k \in [1..n -> Kinds]} :
        \A i \in 1..n : t[i].parent = 0 \/ t[t[i].parent].kind = "dir"}
Trees == UNION {TreesOf(n) : n \in 0..MaxNodes}

C_a == <<"a">>
C_v1 == <<"v", "1">>
\* A metadata.xml left by an earlier run on the folder, which then held
\* old.png with the Dream "elk".
OldImage ==
    create_image_element(Join(C_a, <<"o", "l", "d">> \o C_png),
                         << <<C_Dream, <<"e", "l", "k">>>> >>, PngSize, None)
OldRoot ==
    Document(Appended(create_folder_element(Call(<<>>, 0, C_a, FALSE, None)).elem,
                      OldImage, Call(<<>>, 0, C_a, FALSE, None), 1)).elem
Responses == {<<"Y", "e", "s">>, <<"y">>, <<"n", "o">>, <<>>}

Idle == [raised |-> "", val |-> JNull]

Init ==
    /\ target \in {"dir", "missing"}
    /\ tree \in (IF target = "dir" THEN Trees ELSE {<<>>})
    /\ args \in [file : {C_a}, dreams : BOOLEAN, recursive : BOOLEAN,
                 output : BOOLEAN, ckpt : {None, Some(C_v1)}]
    /\ metadata_xml \in (IF target = "dir"
                         THEN {NoFile, XmlFile(OldRoot), BrokenFile}
                         ELSE {NoFile})
    /\ prompts_sdp = [exists |-> FALSE, content |-> <<>>]
    /\ writes = <<>>
    /\ answer = None
    /\ pc = "start"
    /\ exc = ""
    /\ literal = <<>>
    /\ sd_value = JNull
    /\ sd_image = Idle

\* main, folder processing: the overwrite check (with its prompt).
FolderCheck ==
    /\ pc = "start"
    /\ target = "dir"
    /\ \E response \in (IF metadata_xml.exists THEN Responses ELSE {<<>>}) :
          /\ answer' = IF metadata_xml.exists THEN Some(response) ELSE None
          /\ pc' = IF check_metadata_file_overwrite(metadata_xml, response)
                   THEN "write" ELSE "dreams"
    /\ UNCHANGED <<tree, target, args, metadata_xml, prompts_sdp, writes, exc>>
    /\ UNCHANGED parse_vars

\* main: the target is neither a file nor a folder (a warning).
NotFileOrFolder ==
    /\ pc = "start"
    /\ target = "missing"
    /\ pc' = "dreams"
    /\ UNCHANGED <<tree, target, args, metadata_xml, prompts_sdp, writes, answer, exc>>
    /\ UNCHANGED parse_vars

\* A variant that, when recursive, also writes a metadata.xml into every
\* sub-folder of the target.
write_xml_document_PerFolder ==
    /\ pc = "write"
    /\ \E xml_string \in {create_xml_document(tree, args.file, args.recursive,
                                              args.ckpt)} :
          IF xml_string.raised # ""
          THEN /\ pc' = "exit1"
               /\ exc' = xml_string.raised
               /\ UNCHANGED <<metadata_xml, writes>>
          ELSE /\ metadata_xml' = XmlFile(xml_string.elem)
               /\ \E sub \in {SelectSeq(Listdir(tree, 0), LAMBDA n : IsDir(tree, n))} :
                     writes' = Append(writes, Join(args.file, FILE_METADATA))
                               \o (IF args.recursive
                                   THEN [i \in 1..Len(sub) |->
                                           Join(Join(args.file, NodeName(tree, sub[i])),
                                                FILE_METADATA)]
                                   ELSE <<>>)
               /\ pc' = "dreams"
               /\ UNCHANGED exc
    /\ UNCHANGED <<tree, target, args, prompts_sdp, answer>>
    /\ UNCHANGED parse_vars
\* write_xml_document, called by main once the overwrite check allowed it.  An
\* exception that is no OSError passes main's handler and ends the run.
write_xml_document ==
    /\ pc = "write"
    /\ \E xml_string \in {create_xml_document(tree, args.file, args.recursive,
                                              args.ckpt)} :
          IF xml_string.raised # ""
          THEN /\ pc' = "exit1"
               /\ exc' = xml_string.raised
               /\ UNCHANGED <<metadata_xml, writes>>
          ELSE /\ metadata_xml' = XmlFile(xml_string.elem)
               /\ writes' = Append(writes, Join(args.file, FILE_METADATA))
               /\ pc' = "dreams"
               /\ UNCHANGED exc
    /\ UNCHANGED <<tree, target, args, prompts_sdp, answer>>
    /\ UNCHANGED parse_vars

\* main, "if dreams": create_dreams_file; every exception ends the run
\* with exit status 1 (an OSError in main's handler, the others in the
\* module's).
MainDreams ==
    /\ pc = "dreams"
    /\ args.dreams
    /\ \E r \in {create_dreams_file(metadata_xml, args.output)} :
           /\ prompts_sdp' = IF r.opened
                             THEN [exists |-> TRUE, content |-> r.content]
                             ELSE prompts_sdp
           /\ writes' = IF r.opened
                        THEN Append(writes, Join(args.file, FILE_PROMPTS))
                        ELSE writes
           /\ pc' = IF r.raised = "" THEN "done" ELSE "exit1"
           /\ exc' = r.raised
    /\ UNCHANGED <<tree, target, args, metadata_xml, answer>>
    /\ UNCHANGED parse_vars

\* main without the dreams flag returns.
MainReturn ==
    /\ pc = "dreams"
    /\ ~args.dreams
    /\ pc' = "done"
    /\ UNCHANGED <<tree, target, args, metadata_xml, prompts_sdp, writes, answer, exc>>
    /\ UNCHANGED parse_vars

Next == FolderCheck \/ NotFileOrFolder \/ write_xml_document \/ MainDreams \/ MainReturn

Spec == Init /\ [][Next]_vars

\* ---------------------------------------- the earlier variant (v.0.6.1)
\* src/Python/metadreams.py: a flat metadata.xml of the PNG files of one
\* folder, and the prompts taken from it.  A call's context: the tree, the
\* folder and the ckpt label.
OldCall(t, folder, ckpt) == [t |-> t, folder |-> folder, ckpt |-> ckpt]
old_create_image_element(filename, file_path, metadata, size, ckpt) ==
    MetadataLoop(
        add_single_element(
            add_single_element(
                add_attr_element(Element("image"), C_filename, filename),
                C_path, file_path),
            C_size, size),
        metadata, 1, ckpt)
\* create_xml_document's loop over os.listdir(folder), from entry i on.
RECURSIVE OldLoop(_, _, _)
OldAppended(root, r, c, i) ==
    IF r.raised # "" THEN Raised(r.raised, root)
    ELSE OldLoop([root EXCEPT !.children = Append(@, r.elem)], c, i + 1)
OldPng(root, p, filename, c, i) ==
    IF p.metadata = None \/ p.size = None
    THEN OldLoop(root, c, i + 1)
    ELSE OldAppended(root,
                     old_create_image_element(filename, Join(c.folder, filename),
                                              p.metadata[1], p.size[1], c.ckpt),
                     c, i)
OldLoop(root, c, i) ==
    IF i > Len(Listdir(c.t, 0)) THEN Returned(root)
    ELSE IF ~EndsWith(NodeName(c.t, Listdir(c.t, 0)[i]), C_png)
    THEN OldLoop(root, c, i + 1)
    ELSE OldPng(root, process_png_file(c.t, Listdir(c.t, 0)[i]),
                NodeName(c.t, Listdir(c.t, 0)[i]), c, i)
C_old_version == <<"M", "e", "t", "a", "D", "r", "e", "a", "m", "s", " ",
                   "v", ".", "0", ".", "6", ".", "1">>
OldRootElement ==
    add_attr_element(Element("metadata"),
                     <<"s", "o", "f", "t", "w", "a", "r", "e">>, C_old_version)
OldPretty(r) ==
    IF r.raised # "" THEN r ELSE Returned(ToPrettyXml(r.elem))
old_create_xml_document(t, folder, ckpt) ==
    OldPretty(OldLoop(OldRootElement, OldCall(t, folder, ckpt), 1))
\* write_xml_document: [raised, file], the file being metadata.xml after it.
OldWritten(xml_string, f) ==
    IF xml_string.raised # "" THEN [raised |-> xml_string.raised, file |-> f]
    ELSE [raised |-> "", file |-> XmlFile(xml_string.elem)]
old_write_xml_document(t, folder, f, ckpt) ==
    OldWritten(old_create_xml_document(t, folder, ckpt), f)

\* extract_dreams: [raised, dreams]; the loop over doc.iter("image").
RECURSIVE ExtractLoop(_, _, _)
ExtractLoop(images, i, dreams) ==
    IF i > Len(images) THEN [raised |-> "", dreams |-> dreams]
    ELSE IF Find(images[i], Cat(C_Dream)) = 0
    THEN ExtractLoop(images, i + 1, dreams)
    ELSE ExtractLoop(images, i + 1,
                     Append(dreams,
                            images[i].children[Find(images[i], Cat(C_Dream))].text))
ExtractParsed(doc) ==
    IF doc.raised # "" THEN [raised |-> doc.raised, dreams |-> <<>>]
    ELSE ExtractLoop(Iter(doc.elem, "image"), 1, <<>>)
extract_dreams(f) == ExtractParsed(parse_metadata_xml_file(f))
\* write_dreams: [raised, content], as in the later variant but with the
\* output argument's text appended.
RECURSIVE old_write_dreams(_, _, _, _)
old_write_dreams(dreams, output_generation, i, content) ==
    IF i > Len(dreams) THEN [raised |-> "", content |-> content]
    ELSE IF dreams[i] = None THEN [raised |-> "TypeError", content |-> content]
    ELSE old_write_dreams(dreams, output_generation, i + 1,
            content \o dreams[i][1]
            \o (IF Truthy(output_generation)
                THEN C_dash_o \o output_generation[1] ELSE <<>>)
            \o <<"\n">>)
\* create_dreams_file: [raised, file, generated, opened, content]; generated
\* tells whether it wrote metadata.xml itself.
OldDreamsFailed(raised, w, generated) ==
    [raised |-> raised, file |-> w.file, generated |-> generated,
     opened |-> FALSE, content |-> <<>>]
OldDreamsWritten(d, w, generated) ==
    [raised |-> d.raised, file |-> w.file, generated |-> generated,
     opened |-> TRUE, content |-> d.content]
OldExtracted(got, w, generated, output_argument) ==
    IF got.raised # "" THEN OldDreamsFailed(got.raised, w, generated)
    ELSE OldDreamsWritten(old_write_dreams(got.dreams, output_argument, 1, <<>>),
                          w, generated)
OldGenerated(w, generated, output_argument) ==
    IF w.raised # "" THEN OldDreamsFailed(w.raised, w, FALSE)
    ELSE OldExtracted(extract_dreams(w.file), w, generated, output_argument)
old_create_dreams_file(t, folder, f, output_argument) ==
    IF ~f.exists
    THEN OldGenerated(old_write_xml_document(t, folder, f, None), TRUE,
                      output_argument)
    ELSE OldGenerated([raised |-> "", file |-> f], FALSE, output_argument)

C_out == <<"o", "u", "t">>
\* main of the earlier variant, not recursive: -F and -d name the folder a,
\* or are absent.
InitOld ==
    /\ target = "dir"
    /\ tree \in Trees
    /\ args \in [folder : BOOLEAN, dreams : BOOLEAN,
                 output : {None, Some(C_out)}, ckpt : {None, Some(C_v1)}]
    /\ metadata_xml = NoFile
    /\ prompts_sdp = [exists |-> FALSE, content |-> <<>>]
    /\ writes = <<>>
    /\ answer = None
    /\ pc = "old_start"
    /\ exc = ""
    /\ literal = <<>>
    /\ sd_value = JNull
    /\ sd_image = Idle
\* "if not png_file and not folder and not dreams": an error message, return.
OldNothingToDo ==
    /\ pc = "old_start"
    /\ ~args.folder /\ ~args.dreams
    /\ pc' = "old_done"
    /\ UNCHANGED <<tree, target, args, metadata_xml, prompts_sdp, writes, answer, exc>>
    /\ UNCHANGED parse_vars
\* "if folder": write_xml_document; an exception that is no OSError is not
\* handled.
OldMainFolder ==
    /\ pc = "old_start"
    /\ args.folder
    /\ \E w \in {old_write_xml_document(tree, C_a, metadata_xml, args.ckpt)} :
          /\ metadata_xml' = w.file
          /\ writes' = IF w.raised = "" THEN Append(writes, Join(C_a, FILE_METADATA))
                       ELSE writes
          /\ pc' = IF w.raised = "" THEN "old_dreams" ELSE "old_exit1"
          /\ exc' = w.raised
    /\ UNCHANGED <<tree, target, args, prompts_sdp, answer>>
    /\ UNCHANGED parse_vars
OldMainNoFolder ==
    /\ pc = "old_start"
    /\ ~args.folder /\ args.dreams
    /\ pc' = "old_dreams"
    /\ UNCHANGED <<tree, target, args, metadata_xml, prompts_sdp, writes, answer, exc>>
    /\ UNCHANGED parse_vars
\* "if dreams": create_dreams_file.
OldMainDreams ==
    /\ pc = "old_dreams"
    /\ args.dreams
    /\ \E r \in {old_create_dreams_file(tree, C_a, metadata_xml, args.output)} :
          /\ metadata_xml' = r.file
          /\ prompts_sdp' = IF r.opened
                            THEN [exists |-> TRUE, content |-> r.content]
                            ELSE prompts_sdp
          /\ writes' = writes
                \o (IF r.generated /\ r.file.exists
                    THEN <<Join(C_a, FILE_METADATA)>> ELSE <<>>)
                \o (IF r.opened THEN <<Join(C_a, FILE_PROMPTS)>> ELSE <<>>)
          /\ pc' = IF r.raised = "" THEN "old_done" ELSE "old_exit1"
          /\ exc' = r.raised
    /\ UNCHANGED <<tree, target, args, answer>>
    /\ UNCHANGED parse_vars
OldMainReturn ==
    /\ pc = "old_dreams"
    /\ ~args.dreams
    /\ pc' = "old_done"
    /\ UNCHANGED <<tree, target, args, metadata_xml, prompts_sdp, writes, answer, exc>>
    /\ UNCHANGED parse_vars
NextOld ==
    OldNothingToDo \/ OldMainFolder \/ OldMainNoFolder \/ OldMainDreams \/ OldMainReturn
SpecOld == InitOld /\ [][NextOld]_vars

\* --------------------------------------------------------- SpecParse
\* parse_image_info on its own: the image entry is the Python literal of a
\* dict of at most MaxPairs entries, as a string or as the decoded dict.
PyKeys == {C_key, <<"a">>}
PyValues == {JNull, JStr(<<"v">>), JStr(C_None), JStr(<<"i", "t", SQ, "s">>),
             JNum(<<"7">>), JBool(TRUE)}
PyDicts == UNION {[1..n -> PyKeys \X PyValues] : n \in 0..MaxPairs}

\* The dict a sequence of entries denotes.
RECURSIVE DictOf(_, _, _)
DictOf(entries, i, items) ==
    IF i > Len(entries) THEN items
    ELSE DictOf(entries, i + 1, DictPut(items, entries[i][1], entries[i][2]))

InitParse ==
    /\ target = "missing"
    /\ tree = <<>>
    /\ args = [file |-> C_a, dreams |-> FALSE, recursive |-> FALSE,
               output |-> FALSE, ckpt |-> None]
    /\ metadata_xml = NoFile
    /\ prompts_sdp = [exists |-> FALSE, content |-> <<>>]
    /\ writes = <<>>
    /\ answer = None
    /\ pc = "parse"
    /\ exc = ""
    /\ literal \in PyDicts
    /\ sd_value \in {JStr(PyStr(JObj(literal))), JObj(DictOf(literal, 1, <<>>))}
    /\ sd_image = Idle

ParseImageInfo ==
    /\ pc = "parse"
    /\ sd_image' = parse_image_info(sd_value)
    /\ pc' = "parsed"
    /\ UNCHANGED <<tree, target, args, metadata_xml, prompts_sdp, writes, answer, exc,
                   literal, sd_value>>

NextParse == ParseImageInfo

SpecParse == InitParse /\ [][NextParse]_vars

\* ---------------------------------------------------------- properties
\* What the properties compare the program with, stated on the tree itself.

\* The path of node n, and of the folder that holds it.
RECURSIVE NodeDir(_, _)
NodePath(t, n) == NodeDir(t, n) \o <<"/">> \o NodeName(t, n)
NodeDir(t, n) == IF t[n].parent = 0 THEN C_a ELSE NodePath(t, t[n].parent)

IsPng(t, n) == t[n].kind \in PngKinds
\* A PNG file that opens and whose sd-metadata, if any, decodes.
WellFormedPng(t, n) == t[n].kind \in {"plain", "dream", "emptydream", "sd"}
MalformedJson(t, n) == t[n].kind \in {"sdbad", "imgbad"}
\* The nodes the walk is asked to cover.
InScope(t, n, recursive) == recursive \/ t[n].parent = 0

\* The nodes below folder d, depth first, each folder before its content.
RECURSIVE Preorder(_, _, _)
Preorder(t, d, i) ==
    IF i > Len(t) THEN <<>>
    ELSE IF t[i].parent # d THEN Preorder(t, d, i + 1)
    ELSE <<i>> \o (IF t[i].kind = "dir" THEN Preorder(t, i, i + 1) ELSE <<>>)
         \o Preorder(t, d, i + 1)

\* The document in metadata.xml, once this run has written it.
WroteMetadata == \E i \in 1..Len(writes) : writes[i] = C_a \o <<"/">> \o FILE_METADATA
WrotePrompts == \E i \in 1..Len(writes) : writes[i] = C_a \o <<"/">> \o FILE_PROMPTS
Images == Iter(metadata_xml.root, "image")
Folders == Iter(metadata_xml.root, "folder")
PathOf(image) == image.children[1].text[1]
ImagesAt(path) == {i \in 1..Len(Images) : PathOf(Images[i]) = path}
WalkError == exc \in {"JSONDecodeError", "AttributeError"}
Declined ==
    /\ answer # None
    /\ answer[1] \notin {<<"y">>, <<"Y">>, <<"y", "e", "s">>, <<"Y", "e", "s">>}

\* C1: when every PNG file of the tree is well-formed, building the document
\* raises nothing, and the document written holds exactly one <image> per PNG
\* file directly in the target folder (not recursive) or anywhere below it
\* (recursive), and no other <image>.
C1_OneImagePerPng ==
    (target = "dir" /\ \A n \in 1..Len(tree) : IsPng(tree, n) => WellFormedPng(tree, n))
    => /\ ~WalkError
       /\ WroteMetadata =>
            /\ \A n \in 1..Len(tree) :
                  Cardinality(ImagesAt(NodePath(tree, n)))
                     = IF IsPng(tree, n) /\ InScope(tree, n, args.recursive)
                       THEN 1 ELSE 0
            /\ Len(Images) = Cardinality({n \in 1..Len(tree) :
                                IsPng(tree, n) /\ InScope(tree, n, args.recursive)})
\* A recursive run over well-formed PNG files wrote a document with two
\* images, one of them of a file in a sub-folder.
C1_Witness ==
    /\ WroteMetadata
    /\ args.recursive
    /\ Len(Images) = 2
    /\ \E n \in 1..Len(tree) : IsPng(tree, n) /\ tree[n].parent # 0
    /\ \A n \in 1..Len(tree) : IsPng(tree, n) => WellFormedPng(tree, n)

\* Text cs holds the text word.
Contains(cs, word) == \E i \in 1..Len(cs) : StartsAt(cs, i, word)
\* A value parse_image_info is meant for.
PlainValue(v) ==
    \/ v.t \in {"null", "num"}
    \/ v.t = "str" /\ ~Has(v.s, SQ) /\ ~Has(v.s, DQ) /\ ~Contains(v.s, C_None)

\* The PNG files the document should hold, in document order: those in
\* scope that open.
RECURSIVE Emitted(_, _, _)
Emitted(t, order, recursive) ==
    IF order = <<>> THEN <<>>
    ELSE (IF IsPng(t, Head(order)) /\ t[Head(order)].kind # "corrupt"
             /\ InScope(t, Head(order), recursive)
          THEN <<Head(order)>> ELSE <<>>)
         \o Emitted(t, Tail(order), recursive)
EmittedNodes == Emitted(tree, Preorder(tree, 0, 1), args.recursive)
ImagePaths == [i \in 1..Len(Images) |-> PathOf(Images[i])]
MetadataPath == C_a \o <<"/">> \o FILE_METADATA
PromptsPath == C_a \o <<"/">> \o FILE_PROMPTS

\* The Dream value of a node that has one, and the prompt lines of a
\* sequence of nodes (with " -o <folder>" when output is set).
HasDream(t, n) == t[n].kind \in {"dream", "emptydream"}
DreamOf(t, n) == IF t[n].kind = "dream" THEN DreamTexts[n] ELSE <<>>
RECURSIVE PromptLines(_, _, _)
PromptLines(t, nodes, output) ==
    IF nodes = <<>> THEN <<>>
    ELSE (IF HasDream(t, Head(nodes))
          THEN DreamOf(t, Head(nodes))
               \o (IF output THEN C_dash_o \o NodeDir(t, Head(nodes)) ELSE <<>>)
               \o <<"\n">>
          ELSE <<>>)
         \o PromptLines(t, Tail(nodes), output)

\* C2 (as claimed): after a run with the dreams flag and without the output
\* flag that wrote metadata.xml, the run has ended normally and prompts.sdp
\* holds the Dream values of the images of the document, one per line, in
\* document order.
C2_RoundTrip ==
    (args.dreams /\ ~args.output /\ WroteMetadata /\ pc \in {"done", "exit1"})
    => /\ pc = "done"
       /\ prompts_sdp.exists
       /\ prompts_sdp.content = PromptLines(tree, EmittedNodes, FALSE)

\* C3 (as claimed): with a PNG in scope whose sd-metadata or nested image
\* literal does not decode, a run that was allowed to write still does not
\* end on the decoding error, writes metadata.xml, and the document holds the
\* well-formed PNG files and only them.
C3_JsonFailureIsLocal ==
    (/\ target = "dir" /\ ~Declined /\ pc \in {"dreams", "done", "exit1"}
     /\ \E n \in 1..Len(tree) :
           MalformedJson(tree, n) /\ InScope(tree, n, args.recursive))
    => /\ ~WalkError
       /\ WroteMetadata
       /\ \A n \in 1..Len(tree) :
             Cardinality(ImagesAt(NodePath(tree, n)))
                = IF WellFormedPng(tree, n) /\ InScope(tree, n, args.recursive)
                  THEN 1 ELSE 0

Healed(t) ==
    [n \in 1..Len(t) |-> IF t[n].kind = "corrupt" THEN [t[n] EXCEPT !.kind = "txt"]
                         ELSE t[n]]
\* C5: a corrupt PNG has no <image> and changes nothing else: the document
\* written is the one the same tree gives with the corrupt files not being
\* PNG files at all; it holds the PNG files in scope that open, in order,
\* when no sd-metadata is malformed; and a walk never ends on an error
\* unless an sd-metadata in scope is malformed.
C5_CorruptPngSkipped ==
    target = "dir"
    => /\ WroteMetadata =>
            /\ metadata_xml.root =
                  create_xml_document(Healed(tree), args.file, args.recursive,
                                      args.ckpt).elem
            /\ \A n \in 1..Len(tree) :
                  tree[n].kind = "corrupt" => ImagesAt(NodePath(tree, n)) = {}
            /\ ImagePaths = [i \in 1..Len(EmittedNodes) |->
                                NodePath(tree, EmittedNodes[i])]
       /\ WalkError => \E n \in 1..Len(tree) :
                          MalformedJson(tree, n) /\ InScope(tree, n, args.recursive)
\* A corrupt PNG between two PNG files of the same folder: both are in the
\* document written, the corrupt one is not.
C5_Witness ==
    /\ WroteMetadata
    /\ \E a, n, b \in 1..Len(tree) :
          /\ a < n /\ n < b
          /\ tree[a].parent = tree[n].parent /\ tree[n].parent = tree[b].parent
          /\ tree[n].kind = "corrupt"
          /\ ImagesAt(NodePath(tree, a)) # {} /\ ImagesAt(NodePath(tree, b)) # {}
          /\ ImagesAt(NodePath(tree, n)) = {}

\* C6: with the output flag, the prompts file holds, for each image with a
\* Dream, in document order, the line "<dream> -o <folder of that image>".
C6_OutputFolderPerImage ==
    (args.output /\ prompts_sdp.exists)
    => IF WroteMetadata
       THEN prompts_sdp.content = PromptLines(tree, EmittedNodes, TRUE)
       ELSE /\ metadata_xml = XmlFile(OldRoot)
            /\ prompts_sdp.content = <<"e", "l", "k">> \o C_dash_o \o C_a \o <<"\n">>
\* Two images with a Dream in different folders, each line with its own.
C6_Witness ==
    /\ args.output
    /\ pc = "done"
    /\ WroteMetadata
    /\ WrotePrompts
    /\ \E n, m \in 1..Len(tree) :
          /\ tree[n].kind = "dream" /\ tree[m].kind = "dream"
          /\ NodeDir(tree, n) # NodeDir(tree, m)
          /\ Contains(prompts_sdp.content, C_dash_o \o NodeDir(tree, n) \o <<"\n">>)
          /\ Contains(prompts_sdp.content, C_dash_o \o NodeDir(tree, m) \o <<"\n">>)

\* C7: without recursion the document written holds one <folder>, the target
\* folder's, and every <image> is of a file directly in the target folder.
C7_NoDescent ==
    (WroteMetadata /\ ~args.recursive)
    => /\ Len(Folders) = 1
       /\ Folders[1].attrs = << <<"name", C_a>>, <<"path", C_a>> >>
       /\ \A n \in 1..Len(tree) :
             tree[n].parent # 0 => ImagesAt(NodePath(tree, n)) = {}
       /\ \A i \in 1..Len(Images) :
             \E n \in 1..Len(tree) :
                tree[n].parent = 0 /\ PathOf(Images[i]) = NodePath(tree, n)
\* A well-formed PNG two folders down, and a document of one folder without it.
C7_Witness ==
    /\ WroteMetadata
    /\ ~args.recursive
    /\ Len(Folders) = 1
    /\ \E n \in 1..Len(tree) :
          /\ WellFormedPng(tree, n)
          /\ tree[n].parent # 0
          /\ tree[tree[n].parent].parent # 0
          /\ ImagesAt(NodePath(tree, n)) = {}

RECURSIVE Below(_, _, _)
Below(t, n, d) ==
    IF n = 0 THEN FALSE
    ELSE t[n].parent = d \/ Below(t, t[n].parent, d)
FolderAttrs(t, d) == << <<"name", NodeName(t, d)>>, <<"path", NodePath(t, d)>> >>
\* C10: with recursion, every folder of the tree without a PNG below it has
\* its own <folder> element, with its name and path, in the document written;
\* and a tree without any PNG raises nothing.
C10_EmptyFolderEmitted ==
    (target = "dir" /\ args.recursive)
    => /\ WroteMetadata =>
            \A d \in 1..Len(tree) :
               (IsDir(tree, d) /\ \A n \in 1..Len(tree) :
                                     IsPng(tree, n) => ~Below(tree, n, d))
               => Cardinality({i \in 1..Len(Folders) :
                                  Folders[i].attrs = FolderAttrs(tree, d)}) = 1
       /\ (\A n \in 1..Len(tree) : ~IsPng(tree, n)) => ~WalkError
\* An empty folder and a folder holding only a text file, both in the document.
C10_Witness ==
    /\ WroteMetadata
    /\ args.recursive
    /\ Len(Folders) = 3
    /\ Images = <<>>
    /\ \E d \in 1..Len(tree) : IsDir(tree, d) /\ Listdir(tree, d) = <<>>
    /\ \E d, n \in 1..Len(tree) :
          IsDir(tree, d) /\ tree[n].parent = d /\ tree[n].kind = "txt"

\* C11: in the document written, an image with an sd-metadata element has,
\* when a checkpoint label was given, a ckpt element with that label as the
\* first child of the sd-metadata element and no other ckpt element; without
\* a label, or without an sd-metadata element, the image has no ckpt element
\* at all.  Every PNG in scope with an sd-metadata key has the element.
C11_CkptFirst ==
    WroteMetadata
    => /\ \A i \in 1..Len(Images) :
             IF Find(Images[i], Cat(C_sd_metadata)) # 0 /\ Truthy(args.ckpt)
             THEN /\ Images[i].children[Find(Images[i], Cat(C_sd_metadata))]
                        .children[1].tag = Cat(KEY_CKPT)
                  /\ Images[i].children[Find(Images[i], Cat(C_sd_metadata))]
                        .children[1].text = args.ckpt
                  /\ Len(Iter(Images[i], Cat(KEY_CKPT))) = 1
             ELSE Iter(Images[i], Cat(KEY_CKPT)) = <<>>
       /\ \A n \in 1..Len(tree) :
             (tree[n].kind = "sd" /\ InScope(tree, n, args.recursive))
             => /\ ImagesAt(NodePath(tree, n)) # {}
                /\ \A i \in ImagesAt(NodePath(tree, n)) :
                      Find(Images[i], Cat(C_sd_metadata)) # 0
\* With a label given, a document with an image whose sd-metadata element
\* starts with the ckpt element and goes on with the decoded entries, and an
\* image without sd-metadata and without ckpt.
C11_Witness ==
    /\ WroteMetadata
    /\ args.ckpt = Some(C_v1)
    /\ \E i, j \in 1..Len(Images) :
          /\ Find(Images[i], Cat(C_sd_metadata)) # 0
          /\ Len(Images[i].children[Find(Images[i], Cat(C_sd_metadata))].children) >= 3
          /\ Images[i].children[Find(Images[i], Cat(C_sd_metadata))].children[1].tag
                = Cat(KEY_CKPT)
          /\ Find(Images[j], Cat(C_sd_metadata)) = 0
          /\ Iter(Images[j], Cat(KEY_CKPT)) = <<>>

\* The folders and images of an element, nested as in the document, each
\* with its path; and the same for the directories and the PNG files that
\* open of a tree.
RECURSIVE Shape(_)
RECURSIVE ShapeChildren(_, _)
ShapeChildren(children, i) ==
    IF i > Len(children) THEN <<>>
    ELSE (IF children[i].tag \in {Cat(KEY_FOLDER), Cat(KEY_IMAGE)}
          THEN <<Shape(children[i])>> ELSE <<>>)
         \o ShapeChildren(children, i + 1)
Shape(e) ==
    [tag |-> e.tag,
     path |-> IF e.tag = Cat(KEY_FOLDER) THEN e.attrs[2][2] ELSE PathOf(e),
     children |-> ShapeChildren(e.children, 1)]
RECURSIVE Mirror(_, _, _)
RECURSIVE MirrorChildren(_, _, _)
MirrorChildren(t, entries, i) ==
    IF i > Len(entries) THEN <<>>
    ELSE (IF IsDir(t, entries[i])
          THEN <<Mirror(t, entries[i], NodePath(t, entries[i]))>>
          ELSE IF IsPng(t, entries[i]) /\ t[entries[i]].kind # "corrupt"
          THEN <<[tag |-> Cat(KEY_IMAGE), path |-> NodePath(t, entries[i]),
                  children |-> <<>>]>>
          ELSE <<>>)
         \o MirrorChildren(t, entries, i + 1)
Mirror(t, d, path) ==
    [tag |-> Cat(KEY_FOLDER), path |-> path,
     children |-> MirrorChildren(t, Listdir(t, d), 1)]

\* C12: with recursion, the walk of a tree ends (with the document or with
\* the error of a malformed sd-metadata), and the folders and images
\* of the document written are nested as the directories and PNG files of
\* the tree are: one <folder> per directory, inside its parent's <folder>,
\* and each <image> directly inside the <folder> of its file's directory.
C12_FoldersMirrorTree ==
    (target = "dir" /\ args.recursive)
    => /\ pc = "write" =>
            create_xml_document(tree, args.file, args.recursive, args.ckpt).raised
               \in {"", "JSONDecodeError", "AttributeError"}
       /\ WroteMetadata =>
            /\ Len(metadata_xml.root.children) = 1
            /\ Shape(metadata_xml.root.children[1]) = Mirror(tree, 0, C_a)
            /\ Len(Folders) = 1 + Cardinality({n \in 1..Len(tree) : IsDir(tree, n)})
\* A PNG two folders down, its image inside the folder inside the folder
\* inside the target's.
C12_Witness ==
    /\ WroteMetadata
    /\ args.recursive
    /\ Len(Folders) = 3
    /\ \E n \in 1..Len(tree) :
          /\ WellFormedPng(tree, n)
          /\ tree[n].parent # 0
          /\ tree[tree[n].parent].parent # 0
          /\ Shape(metadata_xml.root.children[1]).children[1].children[1].children[1]
                = [tag |-> Cat(KEY_IMAGE), path |-> NodePath(tree, n), children |-> <<>>]

\* The prompt lines the earlier variant should write: the Dream of each PNG
\* of the folder that has one, in the order listed.
RECURSIVE OldPromptLines(_, _, _)
OldPromptLines(t, nodes, output) ==
    IF nodes = <<>> THEN <<>>
    ELSE (IF HasDream(t, Head(nodes))
          THEN DreamOf(t, Head(nodes))
               \o (IF output # None THEN C_dash_o \o output[1] ELSE <<>>)
               \o <<"\n">>
          ELSE <<>>)
         \o OldPromptLines(t, Tail(nodes), output)
\* C13 (as claimed): in the earlier variant, a run with -d that ends
\* normally has written to prompts.sdp one line per image of the folder
\* whose PNG metadata has a Dream key, with its Dream text.
C13_OldExtractDreams ==
    (pc = "old_done" /\ args.dreams)
    => /\ prompts_sdp.exists
       /\ prompts_sdp.content = OldPromptLines(tree, Listdir(tree, 0), args.output)

\* The lines of a text.
NewLines(cs) == Cardinality({i \in 1..Len(cs) : cs[i] = "\n"})
\* C14 (as claimed): after a run with the dreams flag that wrote metadata.xml,
\* every prompt get_all_prompts collects from it is a text, the run has not
\* ended on a TypeError, and prompts.sdp has one line per image with a dream
\* element.
C14_PromptsAreText ==
    (args.dreams /\ WroteMetadata /\ pc \in {"done", "exit1"})
    => /\ exc # "TypeError"
       /\ get_all_prompts(metadata_xml.root, args.output).raised = ""
       /\ \A i \in 1..Len(get_all_prompts(metadata_xml.root, args.output).dreams) :
             get_all_prompts(metadata_xml.root, args.output).dreams[i] # None
       /\ prompts_sdp.exists
       /\ NewLines(prompts_sdp.content)
             = Cardinality({i \in 1..Len(Images) :
                               Find(Images[i], Cat(KEY_DREAM)) # 0})

\* C15: a run of main on a folder opens for writing at most two files, each
\* once: metadata.xml and prompts.sdp of the target folder itself, the
\* latter only with the dreams flag, and never a file of a sub-folder; when
\* it writes both, metadata.xml comes first.
C15_AtMostTwoFiles ==
    target = "dir"
    => /\ Len(writes) <= 2
       /\ \A i \in 1..Len(writes) :
             /\ writes[i] \in {MetadataPath, PromptsPath}
             /\ Dirname(writes[i]) = args.file
             /\ \A j \in 1..Len(writes) : writes[i] = writes[j] => i = j
       /\ WrotePrompts => args.dreams
       /\ (WroteMetadata /\ WrotePrompts) => writes = <<MetadataPath, PromptsPath>>
       /\ prompts_sdp.exists = WrotePrompts
\* A recursive run with the dreams flag over a tree with a PNG in a
\* sub-folder ended with the two files of the target folder written.
C15_Witness ==
    /\ target = "dir"
    /\ pc = "done"
    /\ args.recursive
    /\ args.dreams
    /\ writes = <<MetadataPath, PromptsPath>>
    /\ \E n \in 1..Len(tree) :
          tree[n].parent # 0 /\ ImagesAt(NodePath(tree, n)) # {}

\* C8: parse_image_info, given the Python literal of a dict whose values are
\* None, integers and strings free of quotes and of the text None, raises
\* nothing and returns that dict, with null for None.
C8_ParseImageInfo ==
    (pc = "parsed" /\ \A i \in 1..Len(literal) : PlainValue(literal[i][2]))
    => sd_image = [raised |-> "", val |-> JObj(DictOf(literal, 1, <<>>))]
\* {'key': None} was decoded into {"key": null}.
C8_Witness ==
    /\ pc = "parsed"
    /\ sd_value = JStr(ImgGood)
    /\ sd_image = [raised |-> "", val |-> JObj(<< <<C_key, JNull>> >>)]

====
